---- MODULE Spec2Model ----
(***************************************************************************)
(* Model of cmd/main.go of andreyflyagin/wordcounter: word counting under  *)
(* a bound on the words held in memory, by spilling sorted runs to         *)
(* temporary files and merging them in batches with a binary heap.         *)
(*                                                                         *)
(* Strings are sequences of byte values, compared as Go compares strings   *)
(* (bytewise).  A file is the sequence of its lines.  The names given by   *)
(* os.CreateTemp are <<prefix, n>> with n the least number not in use for  *)
(* that prefix: the program never inspects a name, it only needs it to be  *)
(* unused at creation.                                                     *)
(***************************************************************************)
EXTENDS Integers, Sequences, FiniteSets, TLC

\* ------------------------------------------------------------------ bounds

\* Bound on the number of lines the scanner yields before end of input.
MaxInput == 5
\* Bound on the value of os.Args[1] tried.
MaxB == 3
\* Bound on the number of leaf runs a write to which fails.
MaxFaults == 1

\* ------------------------------------------------------------------- bytes

SOH == 1
TAB == 9
LF == 10
CR == 13
SP == 32
PLUS == 43
MINUS == 45
ZERO == 48
NINE == 57
ChA == 97
ChB == 98
ChX == 120

\* unicode.IsSpace on the ASCII range, as strings.TrimSpace uses it.
IsSpace(c) == c \in {TAB, LF, LF + 1, LF + 2, CR, SP}

\* Go's s < t on strings.
StrLess(s, t) ==
    \E k \in 1..(Len(s) + 1) :
        /\ k <= Len(t)
        /\ \A j \in 1..(k - 1) : s[j] = t[j]
        /\ \/ k = Len(s) + 1
           \/ s[k] < t[k]

StrLeq(s, t) == s = t \/ StrLess(s, t)

\* strings.TrimSpace
RECURSIVE TrimLeft(_)
TrimLeft(s) ==
    IF s # << >> /\ IsSpace(Head(s)) THEN TrimLeft(Tail(s)) ELSE s

RECURSIVE TrimRight(_)
TrimRight(s) ==
    IF s # << >> /\ IsSpace(s[Len(s)])
    THEN TrimRight(SubSeq(s, 1, Len(s) - 1))
    ELSE s

TrimSpace(s) == TrimRight(TrimLeft(s))

\* The %d verb of fmt.Fprintf.
RECURSIVE Digits(_)
Digits(n) ==
    IF n < 10 THEN << ZERO + n >>
    ELSE Append(Digits(n \div 10), ZERO + (n % 10))

Itoa(n) == IF n < 0 THEN << MINUS >> \o Digits(0 - n) ELSE Digits(n)

\* strconv.Atoi: [ok |-> no error, val |-> the integer (0 on error)].
IsDigit(c) == ZERO <= c /\ c <= NINE

RECURSIVE DigitsVal(_)
DigitsVal(s) ==
    IF s = << >> THEN 0
    ELSE 10 * DigitsVal(SubSeq(s, 1, Len(s) - 1)) + (s[Len(s)] - ZERO)

Atoi(s) ==
    LET signed == s # << >> /\ s[1] \in {PLUS, MINUS}
        body == IF signed THEN Tail(s) ELSE s
    IN  IF body # << >> /\ \A k \in 1..Len(body) : IsDigit(body[k])
        THEN [ok |-> TRUE,
              val |-> IF signed /\ s[1] = MINUS
                      THEN 0 - DigitsVal(body) ELSE DigitsVal(body)]
        ELSE [ok |-> FALSE, val |-> 0]

\* The record "%s\t%d\n" written by both flush functions, without its newline.
FormatRecord(word, count) == word \o << TAB >> \o Itoa(count)

\* strings.SplitN(line, "\t", 2): the index of the first tab, 0 if none.
FirstTab(line) ==
    IF \E k \in 1..Len(line) : line[k] = TAB
    THEN CHOOSE k \in 1..Len(line) :
             line[k] = TAB /\ \A j \in 1..(k - 1) : line[j] # TAB
    ELSE 0

parseLine(line) ==
    LET t == FirstTab(line)
    IN  IF t = 0 THEN [word |-> << >>, count |-> 0]
        ELSE [word |-> SubSeq(line, 1, t - 1),
              count |-> Atoi(SubSeq(line, t + 1, Len(line))).val]

\* sort.Strings over the keys of a map.
RECURSIVE SortStrings(_)
SortStrings(S) ==
    IF S = {} THEN << >>
    ELSE LET m == CHOOSE x \in S : \A y \in S : StrLeq(x, y)
         IN  << m >> \o SortStrings(S \ {m})

\* The lines both flush functions write for a map: one record per key, the keys
\* in sorted order.
RECURSIVE RecordsOf(_, _)
RecordsOf(ws, m) ==
    IF ws = << >> THEN << >>
    ELSE << FormatRecord(Head(ws), m[Head(ws)]) >> \o RecordsOf(Tail(ws), m)

FlushLines(m) == RecordsOf(SortStrings(DOMAIN m), m)

\* m[word] += n on a Go map (a missing key reads as 0).
MapAdd(m, word, n) ==
    [w \in DOMAIN m \cup {word} |->
        (IF w \in DOMAIN m THEN m[w] ELSE 0) + (IF w = word THEN n ELSE 0)]

EmptyMap == [w \in {} |-> 0]

\* --------------------------------------------------- fileEntryHeap (main.go)

\* A heap is the slice of its entries; h[k + 1] is the entry at Go index k.
\* An entry is [word, count, fileIdx], fileIdx counted from 1.
Less(h, i, j) == StrLess(h[i + 1].word, h[j + 1].word)

Swap(h, i, j) ==
    [h EXCEPT ![i + 1] = h[j + 1], ![j + 1] = h[i + 1]]

\* container/heap's up(h, j).
RECURSIVE up(_, _)
up(h, j) ==
    LET i == IF j = 0 THEN 0 ELSE (j - 1) \div 2
    IN  IF i = j \/ ~Less(h, j, i) THEN h
        ELSE up(Swap(h, i, j), i)

\* container/heap's down(h, i0, n), for the slice it leaves.
RECURSIVE down(_, _, _)
down(h, i, n) ==
    LET j1 == 2 * i + 1
        j  == IF j1 + 1 < n /\ Less(h, j1 + 1, j1) THEN j1 + 1 ELSE j1
    IN  IF j1 >= n THEN h
        ELSE IF ~Less(h, j, i) THEN h
        ELSE down(Swap(h, i, j), j, n)

\* heap.Push(h, x): fileEntryHeap.Push appends, then up(h, h.Len() - 1).
heapPush(h, x) == up(Append(h, x), Len(h))

\* heap.Pop(h): Swap(0, n), down(0, n), then fileEntryHeap.Pop takes the last.
heapPopped(h) ==
    LET n == Len(h) - 1
    IN  down(Swap(h, 0, n), 0, n)

heapPopEntry(h) == heapPopped(h)[Len(h)]

heapPopRest(h) == SubSeq(heapPopped(h), 1, Len(h) - 1)

\* ------------------------------------------------------------------- state

VARIABLES
    pc,              \* the statement of main.go the program is at
    Args,            \* os.Args
    MAX_WORDS_IN_MEMORY,
    input,           \* how often scanner.Scan() has yielded each line so far
    wordCount,       \* processInputFile's map
    tempFiles,       \* the leaf runs processInputFile returns, in creation order
    files,           \* mergeInBatches' run list
    nextRoundFiles,
    i,               \* mergeInBatches' batch index
    batch,           \* the runs handed to the current mergeBatch
    readers,         \* mergeBatch: per input run, lines scanned and whether Scan ended
    h,               \* mergeBatch's heap
    wordBuffer,      \* mergeBatch's map
    tmpOutFile,      \* the name of the run mergeBatch writes
    finalFile,       \* what mergeInBatches returned to main
    fs,              \* the files that exist: name -> [lines, opens]
    writeFailed,     \* the leaf runs a write to which has failed
    readFailed       \* the number of reads that have failed

vars == << pc, Args, MAX_WORDS_IN_MEMORY, input, wordCount, tempFiles, files,
           nextRoundFiles, i, batch, readers, h, wordBuffer, tmpOutFile,
           finalFile, fs, writeFailed, readFailed >>

\* The lines an input file may hold: a blank one, words with space around them,
\* a word with a byte below the tab, and a word with a tab inside.
Lines ==
    { << SP >>,
      << SP, ChA >>,
      << ChB >>,
      << ChB, SOH >>,
      << ChB, TAB, ChX >> }

\* os.Args: too few arguments, or a first argument that is a number up to
\* MaxB, a negative number or no number, and the input file's name.
ArgvChoices ==
    { << << ChX >> >>, << << ChX >>, Itoa(1) >> }
    \cup { << << ChX >>, a, << ChX >> >> :
             a \in { Itoa(n) : n \in (0 - 1)..MaxB } \cup { << ChX >> } }

\* main's outputFile, and the names os.CreateTemp gives.
OutputFile == << "output.tsv", 0 >>

NoFile == << "", 0 >>

CreateTemp(prefix) ==
    << prefix,
       CHOOSE n \in 1..(Cardinality(DOMAIN fs) + 1) :
           /\ << prefix, n >> \notin DOMAIN fs
           /\ \A m \in 1..(n - 1) : << prefix, m >> \in DOMAIN fs >>

\* The file system after creating `name` with `lines`.
WithFile(store, name, lines) ==
    [f \in DOMAIN store \cup {name} |->
        IF f = name THEN [lines |-> lines, opens |-> 0] ELSE store[f]]

\* The file system after os.Remove of every name in `names` (errors ignored).
Without(store, names) == [f \in DOMAIN store \ names |-> store[f]]

Range(s) == { s[k] : k \in 1..Len(s) }

\* The end of a batch with the clamp of main.go:119-121 always taken.
MinAlwaysClamps(a, b) == b

Min(a, b) == IF a < b THEN a ELSE b

\* The number of lines read from the input file.
RECURSIVE SumOver(_, _)
SumOver(f, S) ==
    IF S = {} THEN 0
    ELSE LET x == CHOOSE y \in S : TRUE
         IN  f[x] + SumOver(f, S \ {x})

LinesRead == SumOver(input, Lines)

Init ==
    /\ pc = "main"
    /\ Args \in ArgvChoices
    /\ MAX_WORDS_IN_MEMORY = 0
    /\ input = [l \in Lines |-> 0]
    /\ wordCount = EmptyMap
    /\ tempFiles = << >>
    /\ files = << >>
    /\ nextRoundFiles = << >>
    /\ i = 0
    /\ batch = << >>
    /\ readers = << >>
    /\ h = << >>
    /\ wordBuffer = EmptyMap
    /\ tmpOutFile = NoFile
    /\ finalFile = NoFile
    /\ fs = [f \in {} |-> [lines |-> << >>, opens |-> 0]]
    /\ writeFailed = {}
    /\ readFailed = 0

\* -------------------------------------------------------------------- main

\* The argument checks with < 0 for <= 0 at main.go:23.
ParseArgsAllowsZero ==
    /\ pc = "main"
    /\ IF Len(Args) < 3
       THEN /\ pc' = "exit1"
            /\ UNCHANGED MAX_WORDS_IN_MEMORY
       ELSE LET r == Atoi(Args[2])
            IN  /\ MAX_WORDS_IN_MEMORY' = r.val
                /\ pc' = IF ~r.ok \/ r.val < 0 THEN "exit1" ELSE "scan"
    /\ UNCHANGED << Args, input, wordCount, tempFiles, files, nextRoundFiles, i,
                    batch, readers, h, wordBuffer, tmpOutFile, finalFile, fs,
                    writeFailed, readFailed >>

\* main.go:16-26: the argument checks.
ParseArgs ==
    /\ pc = "main"
    /\ IF Len(Args) < 3
       THEN /\ pc' = "exit1"
            /\ UNCHANGED MAX_WORDS_IN_MEMORY
       ELSE LET r == Atoi(Args[2])
            IN  /\ MAX_WORDS_IN_MEMORY' = r.val
                /\ pc' = IF ~r.ok \/ r.val <= 0 THEN "exit1" ELSE "scan"
    /\ UNCHANGED << Args, input, wordCount, tempFiles, files, nextRoundFiles, i,
                    batch, readers, h, wordBuffer, tmpOutFile, finalFile, fs,
                    writeFailed,
                    readFailed >>

\* ------------------------------------------------------------ processInputFile

\* flushToTempFile(wc) of which the first `written` records reach the file: all
\* of them when no write fails.  A failed write leaves the records before it.
flushToTempFile(store, wc, written) ==
    LET name == CreateTemp("wordcount")
    IN  [name |-> name,
         fs |-> WithFile(store, name, SubSeq(FlushLines(wc), 1, written))]

\* The test of main.go:70 with > for >=.
TableFullLate == Cardinality(DOMAIN wordCount) > MAX_WORDS_IN_MEMORY

\* main.go:70: the test that flushes the table.
TableFull == Cardinality(DOMAIN wordCount) >= MAX_WORDS_IN_MEMORY

\* main.go:64-69: the scanner yields a line; a blank one is skipped, any other
\* is trimmed and counted.
ScanLine ==
    /\ pc = "scan"
    /\ LinesRead < MaxInput
    /\ \E line \in Lines :
        /\ input' = [input EXCEPT ![line] = @ + 1]
        /\ IF TrimSpace(line) = << >>
           THEN UNCHANGED << pc, wordCount >>
           ELSE /\ wordCount' = MapAdd(wordCount, TrimSpace(line), 1)
                /\ pc' = "scanCheck"
    /\ UNCHANGED << Args, MAX_WORDS_IN_MEMORY, tempFiles, files, nextRoundFiles,
                    i, batch, readers, h, wordBuffer, tmpOutFile, finalFile, fs,
                    writeFailed,
                    readFailed >>

\* main.go:70-77: the table is flushed if it is full, `written` of its records
\* reaching the file.
FlushCheckStep(written) ==
    /\ pc = "scanCheck"
    /\ IF TableFull
       THEN LET r == flushToTempFile(fs, wordCount, written)
            IN  /\ fs' = r.fs
                /\ tempFiles' = Append(tempFiles, r.name)
                /\ wordCount' = EmptyMap
       ELSE UNCHANGED << wordCount, tempFiles, fs >>
    /\ pc' = "scan"
    /\ UNCHANGED << Args, MAX_WORDS_IN_MEMORY, input, files, nextRoundFiles, i,
                    batch, readers, h, wordBuffer, tmpOutFile, finalFile >>

FlushCheck ==
    /\ FlushCheckStep(Cardinality(DOMAIN wordCount))
    /\ UNCHANGED << writeFailed, readFailed >>

\* main.go:80-87 and main.go:31-36: the scanner ends, the last flush (`written`
\* of its records reaching the file), the return to main and the call of
\* mergeInBatches.
ScanEnd(written) ==
    /\ pc = "scan"
    /\ IF Cardinality(DOMAIN wordCount) > 0
       THEN LET r == flushToTempFile(fs, wordCount, written)
            IN  /\ fs' = r.fs
                /\ tempFiles' = Append(tempFiles, r.name)
                /\ files' = Append(tempFiles, r.name)
       ELSE /\ files' = tempFiles
            /\ UNCHANGED << tempFiles, fs >>
    /\ pc' = "roundHead"
    /\ UNCHANGED << Args, MAX_WORDS_IN_MEMORY, input, wordCount, nextRoundFiles,
                    i, batch, readers, h, wordBuffer, tmpOutFile, finalFile >>

ScanEOF ==
    /\ ScanEnd(Cardinality(DOMAIN wordCount))
    /\ UNCHANGED << writeFailed, readFailed >>

\* main.go:64 with a failing read of the input: scanner.Scan() returns false and
\* scanner.Err() is never looked at, so the loop ends as at the end of input.
ScanReadFails ==
    /\ readFailed < MaxFaults
    /\ ScanEnd(Cardinality(DOMAIN wordCount))
    /\ readFailed' = readFailed + 1
    /\ UNCHANGED writeFailed

\* main.go:103-108 with a failing write: fmt.Fprintf's and writer.Flush's errors
\* are dropped, flushToTempFile returns the name and nil.
FlushCheckWriteFails ==
    /\ pc = "scanCheck"
    /\ TableFull
    /\ Cardinality(writeFailed) < MaxFaults
    /\ \E written \in 0..(Cardinality(DOMAIN wordCount) - 1) :
           FlushCheckStep(written)
    /\ writeFailed' = writeFailed \cup {CreateTemp("wordcount")}
    /\ UNCHANGED readFailed

ScanEOFWriteFails ==
    /\ Cardinality(writeFailed) < MaxFaults
    /\ \E written \in 0..(Cardinality(DOMAIN wordCount) - 1) : ScanEnd(written)
    /\ writeFailed' = writeFailed \cup {CreateTemp("wordcount")}
    /\ UNCHANGED readFailed

\* main.go:91-94, main.go:72-74 and main.go:32-34: os.CreateTemp fails, the
\* error is returned up to main, which panics.
CreateTempFails ==
    /\ \/ pc = "scanCheck" /\ TableFull
       \/ pc = "scan" /\ Cardinality(DOMAIN wordCount) > 0
    /\ pc' = "panic"
    /\ UNCHANGED << Args, MAX_WORDS_IN_MEMORY, input, wordCount, tempFiles, files,
                    nextRoundFiles, i, batch, readers, h, wordBuffer, tmpOutFile,
                    finalFile, fs, writeFailed, readFailed >>

\* -------------------------------------------------------------- mergeInBatches

\* The loop test of main.go:114 with >= 1 for > 1.
RoundStartAtOne ==
    /\ pc = "roundHead"
    /\ Len(files) >= 1
    /\ nextRoundFiles' = << >>
    /\ i' = 0
    /\ pc' = "batchHead"
    /\ UNCHANGED << Args, MAX_WORDS_IN_MEMORY, input, wordCount, tempFiles, files,
                    batch, readers, h, wordBuffer, tmpOutFile, finalFile, fs,
                    writeFailed,
                    readFailed >>

\* main.go:114-116: the loop test holds, a round starts.
RoundStart ==
    /\ pc = "roundHead"
    /\ Len(files) > 1
    /\ nextRoundFiles' = << >>
    /\ i' = 0
    /\ pc' = "batchHead"
    /\ UNCHANGED << Args, MAX_WORDS_IN_MEMORY, input, wordCount, tempFiles, files,
                    batch, readers, h, wordBuffer, tmpOutFile, finalFile, fs,
                    writeFailed,
                    readFailed >>

\* main.go:136 with one run left: return files[0], nil.
MergeReturn ==
    /\ pc = "roundHead"
    /\ Len(files) = 1
    /\ finalFile' = files[1]
    /\ pc' = "rename"
    /\ UNCHANGED << Args, MAX_WORDS_IN_MEMORY, input, wordCount, tempFiles, files,
                    nextRoundFiles, i, batch, readers, h, wordBuffer, tmpOutFile,
                    fs, writeFailed,
                    readFailed >>

\* main.go:136 with no run: files[0] indexes an empty slice, a run-time panic.
MergeIndexPanic ==
    /\ pc = "roundHead"
    /\ Len(files) = 0
    /\ pc' = "panic"
    /\ UNCHANGED << Args, MAX_WORDS_IN_MEMORY, input, wordCount, tempFiles, files,
                    nextRoundFiles, i, batch, readers, h, wordBuffer, tmpOutFile,
                    finalFile, fs, writeFailed, readFailed >>

\* main.go:153-166: the heap after opening runs k.. of `b` and pushing the first
\* record of each that has one.
RECURSIVE SeedHeap(_, _, _)
SeedHeap(b, k, hp) ==
    IF k > Len(b) THEN hp
    ELSE LET lines == fs[b[k]].lines
         IN  SeedHeap(b, k + 1,
                 IF lines # << >>
                 THEN LET e == parseLine(lines[1])
                      IN  heapPush(hp, [word |-> e.word, count |-> e.count,
                                        fileIdx |-> k])
                 ELSE hp)

\* main.go:117-123 and main.go:140-178: the next batch is cut and mergeBatch
\* opens its runs, seeds the heap and creates its output.
MergeBatchStart ==
    /\ pc = "batchHead"
    /\ i < Len(files)
    /\ LET b == SubSeq(files, i + 1, Min(i + MAX_WORDS_IN_MEMORY, Len(files)))
           opened == [f \in DOMAIN fs |->
                         IF f \in Range(b)
                         THEN [fs[f] EXCEPT !.opens = @ + 1] ELSE fs[f]]
           name == CreateTemp("merged")
       IN  /\ batch' = b
           /\ readers' = [k \in 1..Len(b) |->
                             IF fs[b[k]].lines # << >>
                             THEN [pos |-> 1, eof |-> FALSE]
                             ELSE [pos |-> 0, eof |-> TRUE]]
           /\ h' = SeedHeap(b, 1, << >>)
           /\ tmpOutFile' = name
           /\ fs' = WithFile(opened, name, << >>)
    /\ wordBuffer' = EmptyMap
    /\ pc' = "mergeLoop"
    /\ UNCHANGED << Args, MAX_WORDS_IN_MEMORY, input, wordCount, tempFiles, files,
                    nextRoundFiles, i, finalFile, writeFailed,
                    readFailed >>

\* flushBufferToWriter: the file system after the buffer's records are appended
\* to the run being written.
flushBufferToWriter(store, name, buffer) ==
    [store EXCEPT ![name].lines = @ \o FlushLines(buffer)]

\* The test of main.go:183 with > for >=.
BufferFullLate(word) ==
    /\ word \notin DOMAIN wordBuffer
    /\ Cardinality(DOMAIN wordBuffer) > MAX_WORDS_IN_MEMORY

\* The test of main.go:183 without its !ok half.
BufferFullAnyWord(word) ==
    Cardinality(DOMAIN wordBuffer) >= MAX_WORDS_IN_MEMORY

\* main.go:183: the test that flushes the buffer before `word` is added.
BufferFull(word) ==
    /\ word \notin DOMAIN wordBuffer
    /\ Cardinality(DOMAIN wordBuffer) >= MAX_WORDS_IN_MEMORY

\* main.go:180-197: one iteration of the merge loop.  With readFails, the
\* scanner.Scan() of main.go:193 meets a read error before the run's next line:
\* it returns false, as it does at the end of the run.
MergeIter(readFails) ==
    /\ pc = "mergeLoop"
    /\ Len(h) > 0
    /\ LET entry == heapPopEntry(h)
           rest == heapPopRest(h)
           full == BufferFull(entry.word)
           k == entry.fileIdx
           lines == fs[batch[k]].lines
       IN  /\ readFails => readers[k].pos < Len(lines)
           /\ fs' = IF full THEN flushBufferToWriter(fs, tmpOutFile, wordBuffer)
                    ELSE fs
           /\ wordBuffer' = MapAdd(IF full THEN EmptyMap ELSE wordBuffer,
                                   entry.word, entry.count)
           /\ IF readers[k].pos < Len(lines) /\ ~readFails
              THEN LET e == parseLine(lines[readers[k].pos + 1])
                   IN  /\ h' = heapPush(rest, [word |-> e.word, count |-> e.count,
                                               fileIdx |-> k])
                       /\ readers' = [readers EXCEPT ![k].pos = @ + 1]
              ELSE /\ h' = rest
                   /\ readers' = [readers EXCEPT ![k].eof = TRUE]
    /\ UNCHANGED << pc, Args, MAX_WORDS_IN_MEMORY, input, wordCount, tempFiles,
                    files, nextRoundFiles, i, batch, tmpOutFile, finalFile,
                    writeFailed >>

MergeStep ==
    /\ MergeIter(FALSE)
    /\ UNCHANGED readFailed

\* main.go:193 with a failing read: scanner.Err() is never looked at.
MergeReadFails ==
    /\ readFailed < MaxFaults
    /\ MergeIter(TRUE)
    /\ readFailed' = readFailed + 1

\* main.go:199-205 and main.go:123-127: the heap is empty, the last flush, the
\* return, and the merged run joins the next round's list.
MergeBatchEnd ==
    /\ pc = "mergeLoop"
    /\ Len(h) = 0
    /\ fs' = IF Cardinality(DOMAIN wordBuffer) > 0
             THEN flushBufferToWriter(fs, tmpOutFile, wordBuffer)
             ELSE fs
    /\ nextRoundFiles' = Append(nextRoundFiles, tmpOutFile)
    /\ pc' = "remove"
    /\ UNCHANGED << Args, MAX_WORDS_IN_MEMORY, input, wordCount, tempFiles, files,
                    i, batch, readers, h, wordBuffer, tmpOutFile, finalFile,
                    writeFailed,
                    readFailed >>

\* The loop of main.go:129-131 stopping one run short.
RemoveBatchKeepsLast ==
    /\ pc = "remove"
    /\ fs' = Without(fs, Range(SubSeq(batch, 1, Len(batch) - 1)))
    /\ i' = i + MAX_WORDS_IN_MEMORY
    /\ pc' = "batchHead"
    /\ UNCHANGED << Args, MAX_WORDS_IN_MEMORY, input, wordCount, tempFiles, files,
                    nextRoundFiles, batch, readers, h, wordBuffer, tmpOutFile,
                    finalFile, writeFailed,
                    readFailed >>

\* main.go:129-131 and the loop step of main.go:117: the batch's runs are removed.
RemoveBatch ==
    /\ pc = "remove"
    /\ fs' = Without(fs, Range(batch))
    /\ i' = i + MAX_WORDS_IN_MEMORY
    /\ pc' = "batchHead"
    /\ UNCHANGED << Args, MAX_WORDS_IN_MEMORY, input, wordCount, tempFiles, files,
                    nextRoundFiles, batch, readers, h, wordBuffer, tmpOutFile,
                    finalFile, writeFailed,
                    readFailed >>

\* main.go:117 and main.go:133: no batch is left, the round ends.
RoundEnd ==
    /\ pc = "batchHead"
    /\ i >= Len(files)
    /\ files' = nextRoundFiles
    /\ pc' = "roundHead"
    /\ UNCHANGED << Args, MAX_WORDS_IN_MEMORY, input, wordCount, tempFiles,
                    nextRoundFiles, i, batch, readers, h, wordBuffer, tmpOutFile,
                    finalFile, fs, writeFailed, readFailed >>

\* main.go:41: os.Rename(finalFile, outputFile).
Rename ==
    /\ pc = "rename"
    /\ fs' = [f \in (DOMAIN fs \ {finalFile}) \cup {OutputFile} |->
                 IF f = OutputFile THEN fs[finalFile] ELSE fs[f]]
    /\ pc' = "cleanup"
    /\ UNCHANGED << Args, MAX_WORDS_IN_MEMORY, input, wordCount, tempFiles, files,
                    nextRoundFiles, i, batch, readers, h, wordBuffer, tmpOutFile,
                    finalFile, writeFailed,
                    readFailed >>

\* main.go:46-48: os.Remove of every leaf run's name, errors ignored.
Cleanup ==
    /\ pc = "cleanup"
    /\ fs' = Without(fs, Range(tempFiles))
    /\ pc' = "done"
    /\ UNCHANGED << Args, MAX_WORDS_IN_MEMORY, input, wordCount, tempFiles, files,
                    nextRoundFiles, i, batch, readers, h, wordBuffer, tmpOutFile,
                    finalFile, writeFailed,
                    readFailed >>

\* ----------------------------------------------------------- specifications

Next ==
    \/ ParseArgs
    \/ ScanLine
    \/ FlushCheck
    \/ ScanEOF
    \/ RoundStart
    \/ MergeReturn
    \/ MergeIndexPanic
    \/ MergeBatchStart
    \/ MergeStep
    \/ MergeBatchEnd
    \/ RemoveBatch
    \/ RoundEnd
    \/ Rename
    \/ Cleanup

\* The program with reliable storage.
Spec == Init /\ [][Next]_vars

\* The same, taking a step whenever it can: the program is one sequential thread.
FairSpec == Spec /\ WF_vars(Next)

\* The program with storage on which creating or writing a leaf run may fail.
FaultNext ==
    \/ Next
    \/ FlushCheckWriteFails
    \/ ScanEOFWriteFails
    \/ CreateTempFails

FaultSpec == Init /\ [][FaultNext]_vars

\* The program with storage on which reading the input or a run may fail.
ReadFaultNext ==
    \/ Next
    \/ ScanReadFails
    \/ MergeReadFails

ReadFaultSpec == Init /\ [][ReadFaultNext]_vars

\* ------------------------------------------------------------------ claims

\* The distinct non-blank tokens of the input read so far, and how often each
\* occurred.
Tokens == { TrimSpace(l) : l \in { x \in Lines : input[x] > 0 } } \ { << >> }

TrueCount(w) == SumOver(input, { l \in Lines : TrimSpace(l) = w })

\* A record as it was written: the token is the text before the record's last
\* tab, the count the decimal after it.
LastTab(line) ==
    IF \E k \in 1..Len(line) : line[k] = TAB
    THEN CHOOSE k \in 1..Len(line) :
             line[k] = TAB /\ \A j \in (k + 1)..Len(line) : line[j] # TAB
    ELSE 0

WrittenWord(line) == SubSeq(line, 1, LastTab(line) - 1)

WrittenCount(line) == Atoi(SubSeq(line, LastTab(line) + 1, Len(line))).val

\* The pipeline has finished: output.tsv is in place.
Finished == pc = "done"

\* C1: whenever the pipeline finishes, the final run holds, for every distinct
\* non-blank token of the input, exactly one record, whose count is the number
\* of the token's occurrences in the input, and no other record.
C1_FinalCounts ==
    Finished =>
        LET out == fs[OutputFile].lines
        IN  /\ Len(out) = Cardinality(Tokens)
            /\ \A w \in Tokens :
                   \E k \in 1..Len(out) : out[k] = FormatRecord(w, TrueCount(w))

\* The tokens of a run, as written, ascend strictly.
Ascending(lines) ==
    \A k \in 1..(Len(lines) - 1) :
        StrLess(WrittenWord(lines[k]), WrittenWord(lines[k + 1]))

\* C2: every run ever written (leaf, merged and the final output) has strictly
\* ascending tokens, none appearing twice.
C2_RunsAscending == \A f \in DOMAIN fs : Ascending(fs[f].lines)

\* C3: in every reachable state processInputFile's table and mergeBatch's buffer
\* each hold at most MAX_WORDS_IN_MEMORY distinct tokens.
C3_TablesBounded ==
    pc \notin {"main", "exit1"} =>
        /\ Cardinality(DOMAIN wordCount) <= MAX_WORDS_IN_MEMORY
        /\ Cardinality(DOMAIN wordBuffer) <= MAX_WORDS_IN_MEMORY

\* The bound is met: with 2 words allowed, after tables of 2 words were flushed
\* to runs, the buffer was flushed when full and is full again.
C3_Witness ==
    /\ pc = "mergeLoop"
    /\ MAX_WORDS_IN_MEMORY = 2
    /\ Cardinality(DOMAIN wordBuffer) = 2
    /\ fs[tmpOutFile].lines # << >>

\* C4: for every positive MAX_WORDS_IN_MEMORY and every input, mergeInBatches
\* eventually returns, with a run list of exactly one element, which it returns.
C4_MergeTerminates ==
    (pc = "roundHead") ~>
        (pc = "rename" /\ Len(files) = 1 /\ finalFile = files[1])

\* processInputFile has returned to main.
InputDone == pc \notin {"main", "exit1", "scan", "scanCheck"}

\* C5: for an input with no non-blank line processInputFile produces no run and
\* the pipeline goes on without crashing.
C5_EmptyInputCompletes ==
    (InputDone /\ Tokens = {}) => (tempFiles = << >> /\ pc # "panic")

\* The frequency table of the input read so far.
TrueTable == [w \in Tokens |-> TrueCount(w)]

\* C6: when processInputFile produced exactly one run, mergeInBatches merges
\* nothing and removes nothing, the run is never opened, and it is the only
\* file there is, with the records it was written with, before the rename under
\* its own name and after it (and after main's cleanup) as output.tsv.
C6_SingleRunUnchanged ==
    (InputDone /\ pc # "panic" /\ Len(tempFiles) = 1) =>
        LET run == IF pc \in {"roundHead", "rename"} THEN tempFiles[1]
                   ELSE OutputFile
        IN  /\ pc \in {"roundHead", "rename", "cleanup", "done"}
            /\ DOMAIN fs = {run}
            /\ fs[run].opens = 0
            /\ fs[run].lines = FlushLines(TrueTable)

\* A single run of two records has become the output and survived the cleanup.
C6_Witness ==
    /\ pc = "done"
    /\ Len(tempFiles) = 1
    /\ OutputFile \in DOMAIN fs
    /\ Len(fs[OutputFile].lines) = 2

\* The sum of the counts written for token w in a run, and over a run list.
RECURSIVE LinesSum(_, _)
LinesSum(lines, w) ==
    IF lines = << >> THEN 0
    ELSE (IF WrittenWord(Head(lines)) = w THEN WrittenCount(Head(lines)) ELSE 0)
         + LinesSum(Tail(lines), w)

RECURSIVE RunsSum(_, _)
RunsSum(runs, w) ==
    IF runs = << >> THEN 0
    ELSE LinesSum(fs[Head(runs)].lines, w) + RunsSum(Tail(runs), w)

WrittenWords(runs) ==
    UNION { { WrittenWord(fs[f].lines[k]) : k \in 1..Len(fs[f].lines) } :
            f \in Range(runs) }

\* C7: when processInputFile has returned and at every round boundary of
\* mergeInBatches, the counts of each token summed over the runs of the run list
\* are the token's occurrences in the input.
C7_RunsConserveCounts ==
    pc = "roundHead" =>
        \A w \in Tokens \cup WrittenWords(files) :
            RunsSum(files, w) = TrueCount(w)

\* The counts mergeBatch reads from a run (parseLine's), and their sum over the
\* runs of a batch; the counts written to a run.
RECURSIVE ParsedTotal(_)
ParsedTotal(lines) ==
    IF lines = << >> THEN 0
    ELSE parseLine(Head(lines)).count + ParsedTotal(Tail(lines))

RECURSIVE BatchTotal(_)
BatchTotal(runs) ==
    IF runs = << >> THEN 0
    ELSE ParsedTotal(fs[Head(runs)].lines) + BatchTotal(Tail(runs))

RECURSIVE WrittenTotal(_)
WrittenTotal(lines) ==
    IF lines = << >> THEN 0
    ELSE WrittenCount(Head(lines)) + WrittenTotal(Tail(lines))

\* Run f is removed by the step of mergeInBatches that follows the mergeBatch
\* it was an input of, every record of it read and the merged run written.
RemovedAfterMerge(f) ==
    /\ pc = "remove"
    /\ h = << >>
    /\ fs[f].opens = 1
    /\ \E k \in 1..Len(batch) :
           /\ batch[k] = f
           /\ readers[k].eof
           /\ readers[k].pos = Len(fs[f].lines)
    /\ tmpOutFile \in DOMAIN fs
    /\ nextRoundFiles # << >>
    /\ nextRoundFiles[Len(nextRoundFiles)] = tmpOutFile
    /\ WrittenTotal(fs[tmpOutFile].lines) = BatchTotal(batch)

\* The name f goes away because the final run is renamed to output.tsv.
Renamed(f) ==
    /\ pc = "rename"
    /\ f = finalFile
    /\ OutputFile \in DOMAIN fs'
    /\ fs'[OutputFile] = fs[f]

\* C8: a run is removed only after the mergeBatch that took it as input has read
\* all of its records and written the merged run; no run is opened by more than
\* one mergeBatch; and when the pipeline finishes after at least one merge round
\* only the final run, as output.tsv, is left.
C8_RemovedAfterConsumed ==
    /\ [](\A f \in DOMAIN fs : fs[f].opens <= 1)
    /\ []((Finished /\ Len(tempFiles) > 1) => DOMAIN fs = {OutputFile})
    /\ [][\A f \in DOMAIN fs \ DOMAIN fs' : RemovedAfterMerge(f) \/ Renamed(f)]_vars

\* The pipeline has finished after two merge rounds (three leaf runs, two words
\* allowed) and only output.tsv is left.
C8_Witness ==
    /\ Finished
    /\ MAX_WORDS_IN_MEMORY = 2
    /\ Len(tempFiles) = 3
    /\ DOMAIN fs = {OutputFile}

\* C9: during mergeBatch the words held in memory, those of the heap's entries
\* and the keys of wordBuffer, are never more than MAX_WORDS_IN_MEMORY.
C9_MergeMemoryBounded ==
    pc = "mergeLoop" =>
        Len(h) + Cardinality(DOMAIN wordBuffer) <= MAX_WORDS_IN_MEMORY

\* C10: once a write to a leaf run has failed, processInputFile does not return
\* normally and no final output is produced.
C10_WriteFailureAborts ==
    writeFailed # {} =>
        /\ ~(InputDone /\ pc # "panic")
        /\ OutputFile \notin DOMAIN fs

\* C11: once a read of the input or of a run has failed, the pipeline does not
\* finish and no final output is produced.
C11_ReadFailureAborts ==
    readFailed > 0 => (~Finished /\ OutputFile \notin DOMAIN fs)

\* A record mergeBatch cannot parse: no tab, or no number after the first tab.
Malformed(line) ==
    \/ FirstTab(line) = 0
    \/ ~Atoi(SubSeq(line, FirstTab(line) + 1, Len(line))).ok

AllLines(runs) ==
    UNION { { fs[f].lines[k] : k \in 1..Len(fs[f].lines) } : f \in Range(runs) }

\* The sum of the counts of the well-formed records for token w in a run, and
\* over the runs of a batch.
RECURSIVE WellFormedSum(_, _)
WellFormedSum(lines, w) ==
    IF lines = << >> THEN 0
    ELSE (IF ~Malformed(Head(lines)) /\ parseLine(Head(lines)).word = w
          THEN parseLine(Head(lines)).count ELSE 0)
         + WellFormedSum(Tail(lines), w)

RECURSIVE BatchWellFormedSum(_, _)
BatchWellFormedSum(runs, w) ==
    IF runs = << >> THEN 0
    ELSE WellFormedSum(fs[Head(runs)].lines, w)
         + BatchWellFormedSum(Tail(runs), w)

\* mergeBatch has returned and its input runs are still there.
MergeBatchDone == pc = "remove"

\* C12: when a run of the batch holds a malformed record, mergeBatch still
\* returns a run, and every token carried by a well-formed record of the batch
\* has in it a record whose count is the sum of the token's well-formed records.
C12_MalformedAddsZero ==
    (MergeBatchDone /\ \E l \in AllLines(batch) : Malformed(l)) =>
        LET out == fs[tmpOutFile].lines
        IN  \A l \in { x \in AllLines(batch) : ~Malformed(x) } :
                \E k \in 1..Len(out) :
                    out[k] = FormatRecord(parseLine(l).word,
                                 BatchWellFormedSum(batch, parseLine(l).word))

\* The (token, count) records of a run, as written, and those of a count of the
\* whole input in one table.
RecordSet(lines) ==
    { << WrittenWord(lines[k]), WrittenCount(lines[k]) >> : k \in 1..Len(lines) }

SinglePassRecords == { << w, TrueCount(w) >> : w \in Tokens }

\* C13: whatever MAX_WORDS_IN_MEMORY the pipeline finishes with (whatever the
\* run boundaries, batches and rounds were), the final set of (token, count)
\* records is that of a single-pass in-memory count of the input.
C13_SameAsSinglePass ==
    Finished => RecordSet(fs[OutputFile].lines) = SinglePassRecords

\* The memory bound is given and is the decimal of a positive integer.
ValidBound ==
    /\ Len(Args) >= 3
    /\ \E n \in 1..MaxB : Args[2] = Itoa(n)

\* C14: with the memory bound missing, not a number or not positive, the program
\* exits before any work: no line of the input is read and no run is created.
C14_InvalidBoundDoesNothing ==
    ~ValidBound =>
        /\ pc \in {"main", "exit1"}
        /\ LinesRead = 0
        /\ DOMAIN fs = {}
        /\ tempFiles = << >>

\* The program has exited on a bound of 0.
C14_Witness ==
    /\ pc = "exit1"
    /\ Len(Args) = 3
    /\ Args[2] = Itoa(0)

\* A run as mergeBatch reads it: the words parseLine returns ascend strictly.
ParsedAscending(lines) ==
    \A k \in 1..(Len(lines) - 1) :
        StrLess(parseLine(lines[k]).word, parseLine(lines[k + 1]).word)

SortedBatch == \A f \in Range(batch) : ParsedAscending(fs[f].lines)

\* The sum of the counts mergeBatch reads for word w in a run, and over a batch.
RECURSIVE ParsedSum(_, _)
ParsedSum(lines, w) ==
    IF lines = << >> THEN 0
    ELSE (IF parseLine(Head(lines)).word = w THEN parseLine(Head(lines)).count
          ELSE 0)
         + ParsedSum(Tail(lines), w)

RECURSIVE BatchParsedSum(_, _)
BatchParsedSum(runs, w) ==
    IF runs = << >> THEN 0
    ELSE ParsedSum(fs[Head(runs)].lines, w) + BatchParsedSum(Tail(runs), w)

\* The records of run k of the batch that its scanner has not yet returned.
Unread(k) ==
    { fs[batch[k]].lines[p] : p \in (readers[k].pos + 1)..Len(fs[batch[k]].lines) }

\* C15: while mergeBatch loops over a batch of sorted, duplicate-free runs, every
\* record already written (each by a flush of the full buffer) carries the
\* complete sum of its token over the batch, no other written record has the
\* token, and the token is neither in the buffer again, nor in a heap entry, nor
\* in a record not yet read.
C15_ForcedFlushComplete ==
    (pc = "mergeLoop" /\ SortedBatch) =>
        LET out == fs[tmpOutFile].lines
        IN  \A k \in 1..Len(out) :
                LET w == WrittenWord(out[k])
                IN  /\ WrittenCount(out[k]) = BatchParsedSum(batch, w)
                    /\ \A j \in 1..Len(out) : j # k => WrittenWord(out[j]) # w
                    /\ w \notin DOMAIN wordBuffer
                    /\ \A e \in 1..Len(h) : h[e].word # w
                    /\ \A r \in 1..Len(batch) :
                           \A l \in Unread(r) : parseLine(l).word # w

\* Two sorted runs share a token; the full buffer was flushed with the token's
\* sum of 2 and the loop goes on with another token in the buffer.
C15_Witness ==
    /\ pc = "mergeLoop"
    /\ SortedBatch
    /\ Len(batch) = 2
    /\ wordBuffer # EmptyMap
    /\ \E k \in 1..Len(fs[tmpOutFile].lines) :
           /\ WrittenCount(fs[tmpOutFile].lines[k]) = 2
           /\ ParsedSum(fs[batch[1]].lines, WrittenWord(fs[tmpOutFile].lines[k])) = 1

\* The round of mergeInBatches has merged its last batch (main.go:117 is false).
RoundOver == pc = "batchHead" /\ i >= Len(files)

\* C16: a round of mergeInBatches that cut its run list into more than one batch
\* ends with strictly fewer runs than it started with.
C16_RoundReducesRuns ==
    (RoundOver /\ Len(files) > MAX_WORDS_IN_MEMORY) =>
        Len(nextRoundFiles) < Len(files)

\* mergeBatch with the heap as the set of its entries and heap.Pop free to
\* return any entry whose word no other entry's word is less than: the set of
\* the runs the loop of main.go:180-203 can write from entries hs, scanner
\* positions pos, buffer buf and the records out already written.
RECURSIVE MergeOutputs(_, _, _, _, _)
MergeOutputs(b, hs, pos, buf, out) ==
    IF hs = {}
    THEN { IF Cardinality(DOMAIN buf) > 0 THEN out \o FlushLines(buf) ELSE out }
    ELSE UNION {
             LET full == /\ entry.word \notin DOMAIN buf
                         /\ Cardinality(DOMAIN buf) >= MAX_WORDS_IN_MEMORY
                 k == entry.fileIdx
                 lines == fs[b[k]].lines
                 more == pos[k] < Len(lines)
                 e == parseLine(lines[pos[k] + 1])
             IN  MergeOutputs(b,
                     (hs \ {entry}) \cup
                         (IF more
                          THEN {[word |-> e.word, count |-> e.count, fileIdx |-> k]}
                          ELSE {}),
                     IF more THEN [pos EXCEPT ![k] = @ + 1] ELSE pos,
                     MapAdd(IF full THEN EmptyMap ELSE buf, entry.word, entry.count),
                     IF full THEN out \o FlushLines(buf) ELSE out)
             : entry \in { x \in hs : \A y \in hs : ~StrLess(y.word, x.word) } }

\* The runs mergeBatch can write for batch b over every order of popping equal
\* words.
TieOrderOutputs(b) ==
    LET first == { k \in 1..Len(b) : fs[b[k]].lines # << >> }
    IN  MergeOutputs(b,
            { [word |-> parseLine(fs[b[k]].lines[1]).word,
               count |-> parseLine(fs[b[k]].lines[1]).count,
               fileIdx |-> k] : k \in first },
            [k \in 1..Len(b) |-> IF k \in first THEN 1 ELSE 0],
            EmptyMap, << >>)

\* C17: when mergeBatch has returned, the run it wrote is the only run any order
\* of popping equal words from different runs could have written.
C17_TieOrderIndependent ==
    MergeBatchDone => TieOrderOutputs(batch) = { fs[tmpOutFile].lines }

\* processInputFile is in its loop.
Scanning == pc \in {"scan", "scanCheck"}

\* This step appends one new run to the leaf runs, holding the table's records.
FlushesTable ==
    /\ Len(tempFiles') = Len(tempFiles) + 1
    /\ SubSeq(tempFiles', 1, Len(tempFiles)) = tempFiles
    /\ LET name == tempFiles'[Len(tempFiles')]
       IN  /\ name \notin DOMAIN fs
           /\ name \in DOMAIN fs'
           /\ fs'[name].lines = FlushLines(wordCount)

\* The leaf runs that are still there hold between 1 and MAX_WORDS_IN_MEMORY
\* records, and exactly that many except for the one flushed at end of input.
LeafRunsSized ==
    \A k \in 1..Len(tempFiles) :
        tempFiles[k] \in DOMAIN fs =>
            LET n == Len(fs[tempFiles[k]].lines)
            IN  /\ 1 <= n
                /\ n <= MAX_WORDS_IN_MEMORY
                /\ (k < Len(tempFiles) \/ Scanning) => n = MAX_WORDS_IN_MEMORY

\* C18: processInputFile flushes its table exactly when, after an insertion, it
\* holds MAX_WORDS_IN_MEMORY distinct tokens, and then empties it, and once more
\* at the end of the input exactly when the table is not empty; no other step
\* touches the leaf runs.  So every leaf run but the last holds exactly
\* MAX_WORDS_IN_MEMORY records, the last between 1 and that many, the table is
\* below the bound before each insertion, and the runs are returned in the order
\* they were created in.
C18_FlushExactlyAtBound ==
    /\ [](LeafRunsSized)
    /\ [](pc = "scan" => Cardinality(DOMAIN wordCount) < MAX_WORDS_IN_MEMORY)
    /\ [][ /\ pc = "scanCheck" =>
                IF Cardinality(DOMAIN wordCount) = MAX_WORDS_IN_MEMORY
                THEN FlushesTable /\ wordCount' = EmptyMap
                ELSE tempFiles' = tempFiles /\ wordCount' = wordCount
           /\ (pc = "scan" /\ pc' = "scan") => tempFiles' = tempFiles
           /\ (pc = "scan" /\ pc' = "scanCheck") => tempFiles' = tempFiles
           /\ (pc = "scan" /\ pc' = "roundHead") =>
                /\ IF Cardinality(DOMAIN wordCount) > 0
                   THEN FlushesTable
                   ELSE tempFiles' = tempFiles
                /\ files' = tempFiles'
           /\ ~Scanning => tempFiles' = tempFiles ]_vars

\* processInputFile has returned three runs with 2 words allowed: two flushed at
\* the bound and one of a single record flushed at the end of the input.
C18_Witness ==
    /\ pc = "roundHead"
    /\ files = tempFiles
    /\ MAX_WORDS_IN_MEMORY = 2
    /\ Len(tempFiles) = 3
    /\ Len(fs[tempFiles[1]].lines) = 2
    /\ Len(fs[tempFiles[3]].lines) = 1

\* mergeBatch is running on `batch`, or has just returned.
InMergeBatch == pc \in {"mergeLoop", "remove"}

\* C19: the batch a mergeBatch runs on is between 1 and MAX_WORDS_IN_MEMORY runs,
\* the slice of the run list that starts where the batches before it end; each
\* batch but the last of the round is of MAX_WORDS_IN_MEMORY runs and the last
\* ends the list, one merged run standing for each batch done, so the batches
\* partition the list; and the heap holds at most one entry for each run of the
\* batch, so never more entries than the batch has runs.
C19_BatchesPartition ==
    /\ InMergeBatch =>
        /\ 1 <= Len(batch)
        /\ Len(batch) <= MAX_WORDS_IN_MEMORY
        /\ i + Len(batch) <= Len(files)
        /\ batch = SubSeq(files, i + 1, i + Len(batch))
        /\ Len(batch) = MAX_WORDS_IN_MEMORY \/ i + Len(batch) = Len(files)
        /\ \A e \in 1..Len(h) : h[e].fileIdx \in 1..Len(batch)
        /\ \A e1, e2 \in 1..Len(h) : h[e1].fileIdx = h[e2].fileIdx => e1 = e2
        /\ Len(h) <= Len(batch)
    /\ pc \in {"batchHead", "mergeLoop"} =>
        i = MAX_WORDS_IN_MEMORY * Len(nextRoundFiles)
    /\ pc = "remove" =>
        i = MAX_WORDS_IN_MEMORY * (Len(nextRoundFiles) - 1)
    /\ \A k1, k2 \in 1..Len(files) : files[k1] = files[k2] => k1 = k2

\* With 2 runs allowed, three runs are cut into a batch of two, merged before,
\* and the batch of the third run alone, whose heap holds that run's entry.
C19_Witness ==
    /\ pc = "mergeLoop"
    /\ MAX_WORDS_IN_MEMORY = 2
    /\ Len(files) = 3
    /\ i = 2
    /\ Len(batch) = 1
    /\ Len(h) = 1

\* C20: for every token in processInputFile's table and its count, parseLine of
\* the record a flush writes for them returns that token and that count.
C20_RecordRoundTrip ==
    \A w \in DOMAIN wordCount :
        /\ parseLine(FormatRecord(w, wordCount[w])).word = w
        /\ parseLine(FormatRecord(w, wordCount[w])).count = wordCount[w]

====
